---- MODULE Spec2Model ----
(***************************************************************************)
(* The TypeScript Fictioneers client (src/index.js, lines 463-1008): the   *)
(* credential store (apiKey, userId, accessToken, accessTokenExpiry), the  *)
(* token exchange, header composition and the request dispatcher.          *)
(*                                                                         *)
(* Every public method is an async function.  One action of the model is   *)
(* one uninterrupted run of the client: from the invocation, or from the   *)
(* resumption after an await, up to the next await.  The remote service    *)
(* and the wall clock move between those runs.  Date.now() is `now`, in    *)
(* milliseconds, as in the code.                                           *)
(***************************************************************************)
EXTENDS Integers, Sequences, FiniteSets, TLC

VARIABLES
    apiKey,             \* this.apiKey, a sequence of characters
    userId,             \* this.userId
    accessToken,        \* this.accessToken
    accessTokenExpiry,  \* this.accessTokenExpiry
    now,                \* Date.now()
    task,               \* the invocations of public methods, by slot
    maxActive,          \* how many invocations the caller keeps in flight
    eagerToken,         \* history: the token that setUserId, the last method
                        \* invoked, has left in the cache, or the mark that
                        \* its exchange failed
    self,               \* which instance of the class the variables above
                        \* describe (`this`)
    peer                \* the other instance of the class: its fields and its
                        \* invocations

vars ==
    <<apiKey, userId, accessToken, accessTokenExpiry, now, task, maxActive, eagerToken,
      self, peer>>

session == <<apiKey, userId, accessToken, accessTokenExpiry>>

\* what no method of `this` touches: the caller's discipline and the other
\* instance
caller == <<maxActive, self, peer>>

(***************************************************************************)
(* Program constants.                                                      *)
(***************************************************************************)
SECRET_API_KEY_PREFIX == <<"s", "_">>
SafetyMarginSec == 10
MsPerSec == 1000

(***************************************************************************)
(* Bounds of the model.                                                    *)
(***************************************************************************)
MaxTicks == 2
TickMs == 5 * MsPerSec
MaxNow == MaxTicks * TickMs

Tasks == {1, 2}

\* apiKey values, sequences of characters: one that starts with the secret
\* prefix, and one that holds it elsewhere.
ApiKeys == { <<"s", "_", "k">>, <<"p", "s", "_">> }
\* userId values given to setUserId, sequences of characters: "", "u2".
UserIds == { <<>>, <<"u", "2">> }
\* expires_in (seconds) of the grants the remote service issues.
ExpiresIns == {5, 15}

(***************************************************************************)
(* JavaScript values.  A value that may be null, undefined or NaN is a     *)
(* record with a kind, so that values of every kind compare.               *)
(***************************************************************************)
Null == [kind |-> "null", user |-> <<>>, iat |-> 0, exp |-> 0]
Undefined == [kind |-> "undefined", user |-> <<>>, iat |-> 0, exp |-> 0]
\* the access_token the service issues at `t` for `u`, living `e` seconds
Jwt(u, t, e) == [kind |-> "jwt", user |-> u, iat |-> t, exp |-> e]

NullNum == [kind |-> "null", v |-> 0]
NaN == [kind |-> "nan", v |-> 0]
Num(n) == [kind |-> "num", v |-> n]

\* !!x of a token value
Truthy(tok) == tok.kind = "jwt"
\* x == null
IsNullish(n) == n.kind = "null"
\* a < b of JavaScript, b a number: a comparison with NaN is false
Less(a, b) == a.kind = "num" /\ a.v < b

\* the time at which the remote service stops accepting the token
RealExpiry(tok) == tok.iat + tok.exp * MsPerSec

\* Fictioneers._uuidv4(): the generated identifier
_uuidv4 == <<"u", "u", "i", "d">>

\* history: the exchange of setUserId for user u has failed
FailedFor(u) == [kind |-> "failed", user |-> u, iat |-> 0, exp |-> 0]

(***************************************************************************)
(* Requests and headers.                                                   *)
(***************************************************************************)
\* Authorization: <apiKey>
RawAuth(key) == [scheme |-> "raw", key |-> key, token |-> Null]
\* Authorization: `Bearer ${accessToken}`
BearerAuth(tok) == [scheme |-> "bearer", key |-> <<>>, token |-> tok]
NoAuth == [scheme |-> "none", key |-> <<>>, token |-> Null]

Absent == [present |-> FALSE, v |-> <<>>]
Present(s) == [present |-> TRUE, v |-> s]

NoHeaders == [Authorization |-> NoAuth, UserID |-> Absent]

\* the `body` argument of _doFetch: null, or the JSON object of an endpoint
\* method
NoBody ==
    [kind |-> "null", published_timeline_id |-> "", timezone |-> "",
     disable_time_guards |-> FALSE, pause_at_beats |-> FALSE, max_steps |-> NullNum,
     link_id |-> ""]
\* body || {}, lines 672 and 683
EmptyBody == [NoBody EXCEPT !.kind = "{}"]

\* the arguments of createUser and initialiseAndProgressUser, lines 884-894
\* and 912-922, with their defaults
DefaultArgs ==
    [timelineId |-> "t1", disableTimeGuards |-> FALSE, pauseAtBeats |-> FALSE,
     maxSteps |-> NullNum]

\* the body of createUser, lines 901-907
createUser_body(a) ==
    [NoBody EXCEPT !.kind = "createUser",
                   !.published_timeline_id = a.timelineId,
                   !.timezone = "Europe/London",
                   !.disable_time_guards = a.disableTimeGuards,
                   !.pause_at_beats = a.pauseAtBeats,
                   !.max_steps = a.maxSteps]
\* the body of progressUserStep, lines 966-969, with the default arguments
progressUserStep_body ==
    [NoBody EXCEPT !.kind = "progressUserStep", !.max_steps = NullNum,
                   !.pause_at_beats = TRUE]
\* the body of followLinkUserTimelineEvent, lines 1001-1003
followLinkUserTimelineEvent_body ==
    [NoBody EXCEPT !.kind = "followLinkUserTimelineEvent", !.link_id = "l1"]

\* the endpoint methods: HTTP verb, auth mode and path of each
Endpoints ==
    [ getTimelines |-> [method |-> "GET", auth |-> "key", url |-> "/timelines"],
      getTimeline |-> [method |-> "GET", auth |-> "key", url |-> "/timelines/{id}"],
      getTimelineEvents |->
          [method |-> "GET", auth |-> "key", url |-> "/timelines/{id}/timeline-events"],
      getTimelineUsers |->
          [method |-> "GET", auth |-> "key", url |-> "/timelines/{id}/users"],
      deleteTimelineUsers |->
          [method |-> "DELETE", auth |-> "key", url |-> "/timelines/{id}/users"],
      getTimelineUser |->
          [method |-> "GET", auth |-> "key", url |-> "/timelines/{id}/users/{userId}"],
      deleteTimelineUser |->
          [method |-> "DELETE", auth |-> "key", url |-> "/timelines/{id}/users/{userId}"],
      getTimelineEventStateChanges |->
          [method |-> "GET", auth |-> "key", url |-> "/timelines/{id}/event-state-changes/"],
      getUser |-> [method |-> "GET", auth |-> "bearer", url |-> "/users/me"],
      deleteUser |-> [method |-> "DELETE", auth |-> "bearer", url |-> "/users/me"],
      createUser |-> [method |-> "POST", auth |-> "bearer", url |-> "/users"],
      progressUserStep |->
          [method |-> "POST", auth |-> "bearer", url |-> "/users/me/progress-step"],
      getUserTimelineEvents |->
          [method |-> "GET", auth |-> "bearer", url |-> "/user-timeline-events"],
      followLinkUserTimelineEvent |->
          [method |-> "POST", auth |-> "bearer",
           url |-> "/user-timeline-events/{id}/follow-link"] ]

EndpointNames == DOMAIN Endpoints

\* the body an endpoint method passes to _doFetch
EndpointBody(e, a) ==
    CASE e = "createUser" -> createUser_body(a)
      [] e = "progressUserStep" -> progressUserStep_body
      [] e = "followLinkUserTimelineEvent" -> followLinkUserTimelineEvent_body
      [] OTHER -> NoBody

\* the arguments of _doFetch, lines 646-658, as endpoint method e passes them;
\* no endpoint method sets `deprecated`
EndpointCall(e, a) ==
    [url |-> Endpoints[e].url, method |-> Endpoints[e].method,
     auth |-> Endpoints[e].auth, body |-> EndpointBody(e, a), deprecated |-> FALSE]

\* _doFetch called with arguments of its own: every method, with and
\* without `deprecated`
DirectCalls ==
    [c \in {"GET", "POST", "PATCH", "DELETE"} \X BOOLEAN |->
        [url |-> "/x", method |-> c[1], auth |-> IF c[1] = "PATCH" THEN "key" ELSE "bearer",
         body |-> NoBody, deprecated |-> c[2]]]

NoCall == [url |-> "", method |-> "", auth |-> "", body |-> NoBody, deprecated |-> FALSE]
KeyEndpoints == {e \in EndpointNames : Endpoints[e].auth = "key"}
BearerEndpoints == {e \in EndpointNames : Endpoints[e].auth = "bearer"}

NoExchange ==
    [state |-> "none", user |-> <<>>, headers |-> NoHeaders,
     token |-> Null, expiresIn |-> NullNum]
NoGrant == [accessToken |-> Null, expiresIn |-> NullNum]

\* a field of a JSON response body: null, absent, or a value; a text is the
\* sequence of its pieces, so that + is \o
JNull == [kind |-> "null", v |-> <<>>]
JAbsent == [kind |-> "absent", v |-> <<>>]
JVal(v) == [kind |-> "value", v |-> v]
\* x ? .. : .. on a field that holds a text
JTruthy(x) == x.kind = "value" /\ x.v # <<>>

\* response.data: an object with its fields, a top-level array, or null;
\* status 0 stands for no status field
JObject(data, error) ==
    [kind |-> "object", data |-> data, error |-> error, meta |-> JAbsent, status |-> 0]
JArray == [kind |-> "array", data |-> JAbsent, error |-> JAbsent, meta |-> JAbsent, status |-> 0]
JNullBody == [JArray EXCEPT !.kind = "null"]
\* no value: the method has not returned one
NoValue == [JArray EXCEPT !.kind = "none"]

\* the value of initialiseAndProgressUser, lines 939-942; none before it
\* returns
NoWorkflowResult == [returned |-> FALSE, user |-> JAbsent, userTimelineEvents |-> JAbsent]
WorkflowResult(user, events) ==
    [returned |-> TRUE, user |-> user, userTimelineEvents |-> events]

NoRequest ==
    [state |-> "none", method |-> "", url |-> "", headers |-> NoHeaders, sentAt |-> 0,
     status |-> 0, statusText |-> "", body |-> NoBody, data |-> NoValue]

\* what a task has put on the wire and taken from it, in order: the token
\* exchange (to = "exchange") and the endpoint request (to = "endpoint")
Sent(to, method, url, headers, body) ==
    [ev |-> "request", to |-> to, method |-> method, url |-> url, headers |-> headers,
     body |-> body, token |-> Null, status |-> 0, data |-> NoValue]
Received(to, token, status, data) ==
    [ev |-> "response", to |-> to, method |-> "", url |-> "", headers |-> NoHeaders,
     body |-> NoBody, token |-> token, status |-> status, data |-> data]

\* the session as a method finds it when it is invoked
Snapshot ==
    [userId |-> userId, accessToken |-> accessToken,
     accessTokenExpiry |-> accessTokenExpiry, now |-> now, eagerToken |-> eagerToken]

IdleTask ==
    [op |-> "idle", pc |-> "idle", arg |-> <<>>,
     pre |-> [userId |-> <<>>, accessToken |-> Null,
              accessTokenExpiry |-> NullNum, now |-> 0, eagerToken |-> Null],
     checked |-> FALSE, refreshed |-> FALSE, nExchanges |-> 0,
     exchange |-> NoExchange, grant |-> NoGrant, headers |-> NoHeaders,
     request |-> NoRequest, result |-> "none", error |-> "",
     call |-> NoCall, log |-> <<>>, value |-> NoValue,
     stage |-> "", args |-> DefaultArgs, user |-> JAbsent, wf |-> NoWorkflowResult]

\* a method invoked now
Begin(op, arg) == [IdleTask EXCEPT !.op = op, !.pc = "running", !.arg = arg, !.pre = Snapshot]

\* the method returns / throws to its caller
Return(r) == [r EXCEPT !.pc = "done", !.result = "ok"]
\* a throw of getUser() caught by initialiseAndProgressUser, which goes on
\* as if there were no user
Throw_caught(r, e) ==
    IF r.op = "initialiseAndProgressUser" /\ r.stage = "getUser"
    THEN [r EXCEPT !.pc = "initialiseAndProgressUser.resume",
                   !.value = JObject(JNull, JNull)]
    ELSE [r EXCEPT !.pc = "done", !.result = "error", !.error = e]
Throw(r, e) == [r EXCEPT !.pc = "done", !.result = "error", !.error = e]

Free(t) == task[t].pc = "idle"
Active == {t \in Tasks : ~Free(t)}
\* the caller starts a method in the lowest free slot
CanInvoke(t) ==
    /\ Free(t)
    /\ Cardinality(Active) < maxActive
    /\ \A u \in Tasks : u < t => ~Free(u)

(***************************************************************************)
(* constructor, lines 494-518.                                             *)
(***************************************************************************)
\* the userId argument: a string, or null (the default)
CtorUserIds == { Present(<<>>), Present(<<"u", "1">>), Absent }

\* the session as the constructor leaves it, no method running
Constructed ==
    /\ apiKey \in ApiKeys
    /\ \E u \in CtorUserIds : userId = IF ~u.present THEN _uuidv4 ELSE u.v
    /\ accessToken = Null
    /\ accessTokenExpiry = NullNum
    /\ now = 0
    /\ task = [t \in Tasks |-> IdleTask]
    /\ eagerToken = Null
    /\ self = 1

\* an instance as the constructor leaves it, seen from the other instance
Instance(key, user) ==
    [apiKey |-> key, userId |-> user, accessToken |-> Null,
     accessTokenExpiry |-> NullNum, task |-> [t \in Tasks |-> IdleTask],
     eagerToken |-> Null]
\* a program with one instance: nothing in the place of the other
NoPeer == Instance(<<>>, <<>>)

\* one instance; the caller awaits each method before it calls the next
Init == Constructed /\ maxActive = 1 /\ peer = NoPeer

(***************************************************************************)
(* Header composition, lines 603-644.                                      *)
(***************************************************************************)
\* prefix occurs in key at the 0-based position i
OccursAt(key, prefix, i) ==
    /\ i + Len(prefix) <= Len(key)
    /\ \A j \in 1..Len(prefix) : key[i + j] = prefix[j]

\* key.indexOf(prefix): the first position at which prefix occurs, or -1
IndexOf(key, prefix) ==
    LET at == {i \in 0..Len(key) : OccursAt(key, prefix, i)} IN
    IF at = {} THEN -1 ELSE CHOOSE i \in at : \A j \in at : i <= j

\* the test written as the truthiness of indexOf
_isKeySecret_truthy == IndexOf(apiKey, SECRET_API_KEY_PREFIX) # 0

_isKeySecret == IndexOf(apiKey, SECRET_API_KEY_PREFIX) = 0

_getAuthHeaderSecretKey == [Authorization |-> RawAuth(apiKey), UserID |-> Absent]

\* a continuation that is ready (a microtask), the caller's included, runs
\* before the clock moves and before the next response is taken from the
\* network
Resuming(t) ==
    task[t].pc \in {"setAccessToken.resume", "setUserId.resume",
                    "_getAuthHeadersAudienceEndpoints.resume", "_doFetch.resume",
                    "initialiseAndProgressUser.resume", "done"}
\* no continuation of the client is ready
NoMicrotask == \A t \in Tasks : Resuming(t) => task[t].pc = "done"

(***************************************************************************)
(* getAccessToken, lines 524-541: up to the await of axios.post.  `u` is   *)
(* this.userId as the call reads it.                                       *)
(***************************************************************************)
getAccessToken_send(r, u) ==
    [r EXCEPT !.pc = "getAccessToken.await",
              !.nExchanges = @ + 1,
              !.log = Append(@, Sent("exchange", "POST", "/auth/token",
                                     _getAuthHeaderSecretKey, NoBody)),
              !.exchange = [state |-> "sent", user |-> u,
                            headers |-> _getAuthHeaderSecretKey,
                            token |-> Null, expiresIn |-> NullNum]]

(***************************************************************************)
(* setAccessToken, lines 555-569.                                          *)
(***************************************************************************)
\* the test of lines 556-560, at time `t`
setAccessToken_stale(tok, expiry, t) ==
    \/ ~Truthy(tok)
    \/ IsNullish(expiry)
    \/ Less(expiry, t)

\* Date.now() + (expiresIn - 10) * 1000, line 563
setAccessToken_expiry(t, expiresIn) ==
    IF expiresIn.kind = "num"
    THEN Num(t + (expiresIn.v - SafetyMarginSec) * MsPerSec)
    ELSE NaN

\* where a method goes on once its setAccessToken() has returned
AfterSetAccessToken(r) ==
    CASE r.op = "setAccessToken" -> Return(r)
      [] r.op = "setUserId" -> [r EXCEPT !.pc = "setUserId.resume"]
      [] OTHER -> [r EXCEPT !.pc = "_getAuthHeadersAudienceEndpoints.resume"]

\* the call of setAccessToken up to its first await, or to its return;
\* `tok` and `u` are this.accessToken and this.userId as the call reads them
setAccessToken_call(r, tok, u) ==
    IF setAccessToken_stale(tok, accessTokenExpiry, now)
    THEN getAccessToken_send([r EXCEPT !.checked = TRUE, !.refreshed = TRUE], u)
    ELSE AfterSetAccessToken([r EXCEPT !.checked = TRUE])

\* public invocation of setAccessToken()
setAccessToken(t) ==
    /\ CanInvoke(t)
    /\ task' = [task EXCEPT ![t] =
                    setAccessToken_call(Begin("setAccessToken", <<>>), accessToken, userId)]
    /\ UNCHANGED <<session, now, caller>>
    /\ eagerToken' = Null

\* public invocation of getAccessToken()
getAccessToken(t) ==
    /\ CanInvoke(t)
    /\ task' = [task EXCEPT ![t] = getAccessToken_send(Begin("getAccessToken", <<>>), userId)]
    /\ UNCHANGED <<session, now, caller>>
    /\ eagerToken' = Null

\* getAccessToken sending the exchange once more when it is rejected
getAccessToken_resume_retry(t) ==
    LET x == task[t].exchange
        r == [task[t] EXCEPT !.log = Append(@, Received("exchange", x.token,
                                     IF x.state = "granted" THEN 200
                                     ELSE IF x.state = "rejected" THEN 401 ELSE 0,
                                     NoValue))]
    IN
    /\ r.pc = "getAccessToken.await"
    /\ r.exchange.state \in {"granted", "rejected", "transport"}
    /\ NoMicrotask
    /\ IF r.exchange.state = "granted"
       THEN /\ accessToken' = r.exchange.token
            /\ LET r1 == [r EXCEPT !.grant = [accessToken |-> r.exchange.token,
                                              expiresIn |-> r.exchange.expiresIn]]
               IN task' = [task EXCEPT ![t] =
                               IF r.op = "getAccessToken"
                               THEN Return(r1)
                               ELSE [r1 EXCEPT !.pc = "setAccessToken.resume"]]
            /\ UNCHANGED eagerToken
       ELSE /\ task' = [task EXCEPT ![t] =
                           IF r.exchange.state = "rejected" /\ r.nExchanges < 2
                           THEN getAccessToken_send(r, userId)
                           ELSE Throw(r, r.exchange.state)]
            /\ eagerToken' = IF r.op = "setUserId" THEN FailedFor(userId) ELSE eagerToken
            /\ UNCHANGED accessToken
    /\ UNCHANGED <<apiKey, userId, accessTokenExpiry, now, caller>>

\* getAccessToken after the await of axios.post, lines 535-540; axios throws
\* on a transport failure and on a status outside 2xx
getAccessToken_resume(t) ==
    LET x == task[t].exchange
        r == [task[t] EXCEPT !.log = Append(@, Received("exchange", x.token,
                                     IF x.state = "granted" THEN 200
                                     ELSE IF x.state = "rejected" THEN 401 ELSE 0,
                                     NoValue))]
    IN
    /\ r.pc = "getAccessToken.await"
    /\ r.exchange.state \in {"granted", "rejected", "transport"}
    /\ NoMicrotask
    /\ IF r.exchange.state = "granted"
       THEN /\ accessToken' = r.exchange.token
            /\ LET r1 == [r EXCEPT !.grant = [accessToken |-> r.exchange.token,
                                              expiresIn |-> r.exchange.expiresIn]]
               IN task' = [task EXCEPT ![t] =
                               IF r.op = "getAccessToken"
                               THEN Return(r1)
                               ELSE [r1 EXCEPT !.pc = "setAccessToken.resume"]]
            /\ UNCHANGED eagerToken
       ELSE /\ task' = [task EXCEPT ![t] = Throw(r, r.exchange.state)]
            /\ eagerToken' = IF r.op = "setUserId" THEN FailedFor(userId) ELSE eagerToken
            /\ UNCHANGED accessToken
    /\ UNCHANGED <<apiKey, userId, accessTokenExpiry, now, caller>>

\* setAccessToken storing the expiry but not the token of line 562
setAccessToken_resume_dropsToken(t) ==
    LET r == task[t] IN
    /\ r.pc = "setAccessToken.resume"
    /\ accessToken' = Null
    /\ accessTokenExpiry' = setAccessToken_expiry(now, r.grant.expiresIn)
    /\ task' = [task EXCEPT ![t] = AfterSetAccessToken(r)]
    /\ UNCHANGED <<apiKey, userId, now, caller, eagerToken>>

\* setAccessToken keeping the token and its expiry in static fields of the
\* class, which every instance reads
setAccessToken_resume_static(t) ==
    LET r == task[t] IN
    /\ r.pc = "setAccessToken.resume"
    /\ accessToken' = r.grant.accessToken
    /\ accessTokenExpiry' = setAccessToken_expiry(now, r.grant.expiresIn)
    /\ peer' = [peer EXCEPT !.accessToken = r.grant.accessToken,
                            !.accessTokenExpiry = setAccessToken_expiry(now, r.grant.expiresIn)]
    /\ task' = [task EXCEPT ![t] = AfterSetAccessToken(r)]
    /\ UNCHANGED <<apiKey, userId, now, maxActive, self, eagerToken>>

\* setAccessToken after the await of getAccessToken(), lines 561-568
setAccessToken_resume(t) ==
    LET r == task[t] IN
    /\ r.pc = "setAccessToken.resume"
    /\ accessToken' = r.grant.accessToken
    /\ accessTokenExpiry' = setAccessToken_expiry(now, r.grant.expiresIn)
    /\ task' = [task EXCEPT ![t] = AfterSetAccessToken(r)]
    /\ UNCHANGED <<apiKey, userId, now, caller, eagerToken>>

(***************************************************************************)
(* setUserId, lines 583-597.                                               *)
(***************************************************************************)
\* setUserId without the test of line 586
setUserId_noSameCheck(t, arg) ==
    /\ CanInvoke(t)
    /\ LET r == Begin("setUserId", arg) IN
       IF Len(arg) # 0
       THEN /\ userId' = arg
            /\ accessToken' = Null
            /\ task' = [task EXCEPT ![t] = setAccessToken_call(r, Null, arg)]
       ELSE /\ task' = [task EXCEPT ![t] = Throw(r, "The parameter userId must have length")]
            /\ UNCHANGED <<userId, accessToken>>
    /\ UNCHANGED <<apiKey, accessTokenExpiry, now, caller>>
    /\ eagerToken' = Null

\* setUserId with the test of line 590 before the test of line 586
setUserId_lengthFirst(t, arg) ==
    /\ CanInvoke(t)
    /\ LET r == Begin("setUserId", arg) IN
       IF Len(arg) = 0
       THEN /\ task' = [task EXCEPT ![t] = Throw(r, "The parameter userId must have length")]
            /\ UNCHANGED <<userId, accessToken>>
       ELSE IF arg = userId
       THEN /\ task' = [task EXCEPT ![t] = Return(r)]
            /\ UNCHANGED <<userId, accessToken>>
       ELSE /\ userId' = arg
            /\ accessToken' = Null
            /\ task' = [task EXCEPT ![t] = setAccessToken_call(r, Null, arg)]
    /\ UNCHANGED <<apiKey, accessTokenExpiry, now, caller>>
    /\ eagerToken' = Null

\* setUserId without the assignment of line 592
setUserId_keepsToken(t, arg) ==
    /\ CanInvoke(t)
    /\ LET r == Begin("setUserId", arg) IN
       IF arg = userId
       THEN /\ task' = [task EXCEPT ![t] = Return(r)]
            /\ UNCHANGED <<userId, accessToken>>
       ELSE IF Len(arg) # 0
       THEN /\ userId' = arg
            /\ task' = [task EXCEPT ![t] = setAccessToken_call(r, accessToken, arg)]
            /\ UNCHANGED accessToken
       ELSE /\ task' = [task EXCEPT ![t] = Throw(r, "The parameter userId must have length")]
            /\ UNCHANGED <<userId, accessToken>>
    /\ UNCHANGED <<apiKey, accessTokenExpiry, now, caller>>
    /\ eagerToken' = Null

\* setUserId assigning this.userId only after the await of line 593
setUserId_lateUserId(t, arg) ==
    /\ CanInvoke(t)
    /\ LET r == Begin("setUserId", arg) IN
       IF arg = userId
       THEN /\ task' = [task EXCEPT ![t] = Return(r)]
            /\ UNCHANGED <<userId, accessToken>>
       ELSE IF Len(arg) # 0
       THEN /\ accessToken' = Null
            /\ task' = [task EXCEPT ![t] = setAccessToken_call(r, Null, userId)]
            /\ UNCHANGED userId
       ELSE /\ task' = [task EXCEPT ![t] = Throw(r, "The parameter userId must have length")]
            /\ UNCHANGED <<userId, accessToken>>
    /\ UNCHANGED <<apiKey, accessTokenExpiry, now, caller>>
    /\ eagerToken' = Null

setUserId(t, arg) ==
    /\ CanInvoke(t)
    /\ LET r == Begin("setUserId", arg) IN
       IF arg = userId
       THEN /\ task' = [task EXCEPT ![t] = Return(r)]
            /\ UNCHANGED <<userId, accessToken>>
       ELSE IF Len(arg) # 0
       THEN /\ userId' = arg
            /\ accessToken' = Null
            /\ task' = [task EXCEPT ![t] = setAccessToken_call(r, Null, arg)]
       ELSE /\ task' = [task EXCEPT ![t] = Throw(r, "The parameter userId must have length")]
            /\ UNCHANGED <<userId, accessToken>>
    /\ UNCHANGED <<apiKey, accessTokenExpiry, now, caller>>
    /\ eagerToken' = Null

\* setUserId after the await of setAccessToken(), line 593
setUserId_resume(t) ==
    /\ task[t].pc = "setUserId.resume"
    /\ task' = [task EXCEPT ![t] = Return(task[t])]
    /\ eagerToken' = accessToken
    /\ UNCHANGED <<session, now, caller>>

(***************************************************************************)
(* _getAuthHeadersAudienceEndpoints, lines 626-644.                        *)
(***************************************************************************)
\* up to the await of setAccessToken(), or to the return with a secret key
_getAuthHeadersAudienceEndpoints(r) ==
    IF _isKeySecret
    THEN [r EXCEPT !.pc = "_doFetch.resume",
                   !.headers = [Authorization |-> RawAuth(apiKey),
                                UserID |-> Present(userId)]]
    ELSE setAccessToken_call(r, accessToken, userId)

\* header composition without the test of line 635
_getAuthHeadersAudienceEndpoints_resume_noCheck(t) ==
    LET r == task[t] IN
    /\ r.pc = "_getAuthHeadersAudienceEndpoints.resume"
    /\ task' = [task EXCEPT ![t] =
           [r EXCEPT !.pc = "_doFetch.resume",
                     !.headers = [Authorization |-> BearerAuth(accessToken),
                                  UserID |-> Absent]]]
    /\ UNCHANGED <<session, now, caller, eagerToken>>

\* after the await of setAccessToken(), lines 635-643
_getAuthHeadersAudienceEndpoints_resume(t) ==
    LET r == task[t] IN
    /\ r.pc = "_getAuthHeadersAudienceEndpoints.resume"
    /\ task' = [task EXCEPT ![t] =
           IF ~Truthy(accessToken)
           THEN [r EXCEPT !.pc = "_doFetch.resume",
                          !.error = "Could not assemble auth headers with bearer - no access token"]
           ELSE [r EXCEPT !.pc = "_doFetch.resume",
                          !.headers = [Authorization |-> BearerAuth(accessToken),
                                       UserID |-> Absent]]]
    /\ UNCHANGED <<session, now, caller, eagerToken>>

(***************************************************************************)
(* _doFetch, lines 646-704, as the endpoint methods of lines 714-1005 call *)
(* it.                                                                     *)
(***************************************************************************)
\* lines 667-687: the request leaves with the headers composed
_doFetch_send(r) ==
    LET body == IF r.call.method \in {"POST", "PATCH"} /\ r.call.body.kind = "null"
                THEN EmptyBody ELSE r.call.body
    IN
    [r EXCEPT !.pc = "_doFetch.await",
              !.request = [state |-> "sent", method |-> r.call.method,
                           url |-> r.call.url, headers |-> r.headers,
                           sentAt |-> now, status |-> 0, statusText |-> "",
                           body |-> body, data |-> NoValue],
              !.log = Append(@, Sent("endpoint", r.call.method, r.call.url, r.headers,
                                     body))]

\* _doFetch going on to the request without the await of line 662
_doFetch_call_noAwait(r, c) ==
    _doFetch_send([r EXCEPT !.call = c])

\* _doFetch called with the arguments c: lines 660-665, up to the first await
_doFetch_call(r, c) ==
    LET r1 == [r EXCEPT !.call = c] IN
    IF c.auth = "bearer"
    THEN _getAuthHeadersAudienceEndpoints(r1)
    ELSE _doFetch_send([r1 EXCEPT !.headers = _getAuthHeaderSecretKey])

\* _doFetch taking the bearer branch of line 661 whatever the auth mode
_doFetch_alwaysBearer(t, e) ==
    /\ CanInvoke(t)
    /\ task' = [task EXCEPT ![t] =
           _getAuthHeadersAudienceEndpoints(
               [Begin(e, <<>>) EXCEPT !.call = EndpointCall(e, DefaultArgs)])]
    /\ UNCHANGED <<session, now, caller>>
    /\ eagerToken' = Null

\* endpoint method e is invoked with its default arguments
_doFetch(t, e) ==
    /\ CanInvoke(t)
    /\ task' = [task EXCEPT ![t] =
                    _doFetch_call(Begin(e, <<>>), EndpointCall(e, DefaultArgs))]
    /\ UNCHANGED <<session, now, caller>>
    /\ eagerToken' = Null

\* _doFetch invoked with arguments of its own, c in DOMAIN DirectCalls
_doFetch_direct(t, c) ==
    /\ CanInvoke(t)
    /\ task' = [task EXCEPT ![t] = _doFetch_call(Begin("_doFetch", <<>>), DirectCalls[c])]
    /\ UNCHANGED <<session, now, caller>>
    /\ eagerToken' = Null

\* after the await of _getAuthHeadersAudienceEndpoints(), line 662
_doFetch_resume(t) ==
    LET r == task[t] IN
    /\ r.pc = "_doFetch.resume"
    /\ task' = [task EXCEPT ![t] =
           IF r.error # "" THEN Throw(r, r.error) ELSE _doFetch_send(r)]
    /\ UNCHANGED <<session, now, caller, eagerToken>>

\* an endpoint request is answered with a status, or fails in the transport
\* (DNS, timeout, reset)
Statuses == {200, 404}
StatusText(st) == IF st = 200 THEN "OK" ELSE "Not Found"
\* the body of an answer of the service: {data: .., error: null}, or
\* {error: ..} with a status outside 2xx
PlainBody(st) ==
    IF st \in 200..299
    THEN JObject(JVal(<<"d1">>), JNull)
    ELSE JObject(JAbsent, JVal(<<"e1">>))
Outcomes == {[state |-> "response", status |-> st, statusText |-> StatusText(st),
              data |-> PlainBody(st)] : st \in Statuses}
            \cup {[state |-> "transport", status |-> 0, statusText |-> "",
                    data |-> NoValue]}

\* the bodies a 2xx answer may carry: objects whose data and error fields are
\* a value, null or absent, a top-level array, and null
Bodies ==
    { JObject(JVal(<<"d1">>), JNull), JObject(JNull, JVal(<<"e1">>)),
      JObject(JAbsent, JAbsent), JObject(JVal(<<"d1">>), JVal(<<>>)),
      JArray, JNullBody }
BodyOutcomes ==
    Outcomes \cup {[state |-> "response", status |-> 200, statusText |-> StatusText(200),
                    data |-> b] : b \in Bodies}

\* the text of lines 700-701
DeprecationNotice ==
    " Notice: this API endpoint has been deprecated and will be removed in a future version of this SDK."

\* the value _doFetch returns reaches the endpoint method, which returns it
\* to its caller or to the await of initialiseAndProgressUser
Complete(r, v) ==
    IF r.op = "initialiseAndProgressUser"
    THEN [r EXCEPT !.pc = "initialiseAndProgressUser.resume", !.value = v]
    ELSE Return([r EXCEPT !.value = v])

\* lines 688-703 on a response the axios call returned
_doFetch_shape(r, o) ==
    IF r.call.method = "DELETE"
    THEN Complete(r, [JObject(JNull, IF o.status >= 400 THEN JVal(<<o.statusText>>)
                                                        ELSE JNull)
                         EXCEPT !.meta = JNull, !.status = 204])
    ELSE IF r.call.deprecated /\ o.data.kind # "array"
    THEN IF o.data.kind = "object"
         THEN Complete(r, [o.data EXCEPT !.error =
                              JVal((IF JTruthy(@) THEN @.v ELSE <<>>) \o <<DeprecationNotice>>)])
         ELSE Throw(r, "TypeError")
    ELSE Complete(r, o.data)

\* _doFetch on an axios that resolves whatever the status
_doFetch_response_anyStatus(t, o) ==
    LET r == [task[t] EXCEPT !.request.state = o.state, !.request.status = o.status,
                             !.request.statusText = o.statusText,
                             !.request.data = o.data,
                             !.log = Append(@, Received("endpoint", Null, o.status, o.data))]
    IN
    /\ task[t].pc = "_doFetch.await"
    /\ NoMicrotask
    /\ task' = [task EXCEPT ![t] =
           IF o.state = "response"
           THEN _doFetch_shape(r, o)
           ELSE Throw(r, "NetworkFailure")]
    /\ UNCHANGED <<session, now, caller, eagerToken>>

\* after the await of the axios call, lines 688-703, with the outcome `o` of
\* the request; axios throws on a transport failure and on a status outside
\* 2xx
_doFetch_response(t, o) ==
    LET r == [task[t] EXCEPT !.request.state = o.state, !.request.status = o.status,
                             !.request.statusText = o.statusText,
                             !.request.data = o.data,
                             !.log = Append(@, Received("endpoint", Null, o.status, o.data))]
    IN
    /\ task[t].pc = "_doFetch.await"
    /\ NoMicrotask
    /\ task' = [task EXCEPT ![t] =
           IF o.state = "response" /\ o.status \in 200..299
           THEN _doFetch_shape(r, o)
           ELSE Throw(r, "NetworkFailure")]
    /\ UNCHANGED <<session, now, caller, eagerToken>>

(***************************************************************************)
(* initialiseAndProgressUser, lines 912-943.                               *)
(***************************************************************************)
\* the arguments of the workflow: the defaults, and every flag set
WorkflowArgs ==
    { DefaultArgs,
      [timelineId |-> "t2", disableTimeGuards |-> TRUE, pauseAtBeats |-> TRUE,
       maxSteps |-> Num(3)] }

\* the workflow is invoked: up to the first await inside getUser()
initialiseAndProgressUser(t, a) ==
    /\ CanInvoke(t)
    /\ task' = [task EXCEPT ![t] =
           _doFetch_call([Begin("initialiseAndProgressUser", <<>>)
                             EXCEPT !.args = a, !.stage = "getUser"],
                         EndpointCall("getUser", a))]
    /\ UNCHANGED <<session, now, caller>>
    /\ eagerToken' = Null

\* the workflow calling createUser({timelineId}) without the flags
initialiseAndProgressUser_after_defaults(r) ==
    LET v == r.value
        events == [r EXCEPT !.stage = "getUserTimelineEvents"]
    IN
    IF v.kind = "null"
    THEN Throw(r, "TypeError")
    ELSE CASE r.stage = "getUser" ->
                IF v.data.kind \in {"null", "absent"}
                THEN _doFetch_call([r EXCEPT !.stage = "createUser"],
                                   EndpointCall("createUser", [DefaultArgs EXCEPT !.timelineId = r.args.timelineId]))
                ELSE _doFetch_call(events, EndpointCall("getUserTimelineEvents", r.args))
           [] r.stage = "createUser" ->
                _doFetch_call([events EXCEPT !.user = v.data],
                              EndpointCall("getUserTimelineEvents", r.args))
           [] OTHER ->
                Return([r EXCEPT !.wf = WorkflowResult(r.user,
                            IF JTruthy(v.data) \/ v.data = JVal(<<>>) THEN v.data
                            ELSE JVal(<<>>))])

\* the workflow testing getUserResponse.data === null
initialiseAndProgressUser_after_strictNull(r) ==
    LET v == r.value
        events == [r EXCEPT !.stage = "getUserTimelineEvents"]
    IN
    IF v.kind = "null"
    THEN Throw(r, "TypeError")
    ELSE CASE r.stage = "getUser" ->
                IF v.data.kind = "null"
                THEN _doFetch_call([r EXCEPT !.stage = "createUser"],
                                   EndpointCall("createUser", r.args))
                ELSE _doFetch_call(events, EndpointCall("getUserTimelineEvents", r.args))
           [] r.stage = "createUser" ->
                _doFetch_call([events EXCEPT !.user = v.data],
                              EndpointCall("getUserTimelineEvents", r.args))
           [] OTHER ->
                Return([r EXCEPT !.wf = WorkflowResult(r.user,
                            IF JTruthy(v.data) \/ v.data = JVal(<<>>) THEN v.data
                            ELSE JVal(<<>>))])

\* the workflow after the await of a sub-call that returned r.value:
\* lines 925-942; a property read on a null body throws
initialiseAndProgressUser_after(r) ==
    LET v == r.value
        events == [r EXCEPT !.stage = "getUserTimelineEvents"]
    IN
    IF v.kind = "null"
    THEN Throw(r, "TypeError")
    ELSE CASE r.stage = "getUser" ->
                IF v.data.kind \in {"null", "absent"}
                THEN _doFetch_call([r EXCEPT !.stage = "createUser"],
                                   EndpointCall("createUser", r.args))
                ELSE _doFetch_call(events, EndpointCall("getUserTimelineEvents", r.args))
           [] r.stage = "createUser" ->
                _doFetch_call([events EXCEPT !.user = v.data],
                              EndpointCall("getUserTimelineEvents", r.args))
           [] OTHER ->
                Return([r EXCEPT !.wf = WorkflowResult(r.user,
                            IF JTruthy(v.data) \/ v.data = JVal(<<>>) THEN v.data
                            ELSE JVal(<<>>))])

initialiseAndProgressUser_resume(t) ==
    /\ task[t].pc = "initialiseAndProgressUser.resume"
    /\ task' = [task EXCEPT ![t] = initialiseAndProgressUser_after(task[t])]
    /\ UNCHANGED <<session, now, caller, eagerToken>>

(***************************************************************************)
(* The remote service, the transport and the clock.                        *)
(***************************************************************************)
\* POST /auth/token is answered: a grant issued now, a 2xx body without the
\* grant's fields, or a status outside 2xx
remoteToken(t) ==
    LET x == task[t].exchange IN
    /\ x.state = "sent"
    /\ \/ \E e \in ExpiresIns :
            task' = [task EXCEPT ![t].exchange =
                        [x EXCEPT !.state = "granted", !.token = Jwt(x.user, now, e),
                                  !.expiresIn = Num(e)]]
       \/ task' = [task EXCEPT ![t].exchange =
                      [x EXCEPT !.state = "granted", !.token = Undefined, !.expiresIn = NaN]]
       \/ task' = [task EXCEPT ![t].exchange = [x EXCEPT !.state = "rejected"]]
    /\ UNCHANGED <<session, now, caller, eagerToken>>

\* the token exchange in flight fails in the transport
transportFailure(t) ==
    /\ task[t].exchange.state = "sent"
    /\ task' = [task EXCEPT ![t].exchange.state = "transport"]
    /\ UNCHANGED <<session, now, caller, eagerToken>>

\* the caller takes the result of a method that has settled
settle(t) ==
    /\ task[t].pc = "done"
    /\ task' = [task EXCEPT ![t] = IdleTask]
    /\ UNCHANGED <<session, now, caller, eagerToken>>

\* wall-clock time passes
Tick ==
    /\ now + TickMs <= MaxNow
    /\ \A t \in Tasks : ~Resuming(t)
    /\ now' = now + TickMs
    /\ UNCHANGED <<session, task, caller, eagerToken>>

Next ==
    \/ \E t \in Tasks :
          \/ getAccessToken(t)
          \/ setAccessToken(t)
          \/ \E arg \in UserIds : setUserId(t, arg)
          \/ \E e \in EndpointNames : _doFetch(t, e)
          \/ getAccessToken_resume(t)
          \/ setAccessToken_resume(t)
          \/ setUserId_resume(t)
          \/ _getAuthHeadersAudienceEndpoints_resume(t)
          \/ _doFetch_resume(t)
          \/ \E o \in Outcomes : _doFetch_response(t, o)
          \/ remoteToken(t)
          \/ transportFailure(t)
          \/ settle(t)
    \/ Tick

Spec == Init /\ [][Next]_vars

(***************************************************************************)
(* The request dispatcher: _doFetch as the endpoint methods call it and    *)
(* with every method, auth mode and `deprecated` flag, answered with every *)
(* body.                                                                   *)
(***************************************************************************)
NextDispatch ==
    \/ \E t \in Tasks :
          \/ \E c \in DOMAIN DirectCalls : _doFetch_direct(t, c)
          \/ \E e \in EndpointNames : _doFetch(t, e)
          \/ getAccessToken_resume(t)
          \/ setAccessToken_resume(t)
          \/ _getAuthHeadersAudienceEndpoints_resume(t)
          \/ _doFetch_resume(t)
          \/ \E o \in BodyOutcomes : _doFetch_response(t, o)
          \/ remoteToken(t)
          \/ transportFailure(t)
          \/ settle(t)
    \/ Tick

SpecDispatch == Init /\ [][NextDispatch]_vars

(***************************************************************************)
(* Two instances of the class in one program.  The variables of the        *)
(* session describe the instance whose code runs; `turn` passes control    *)
(* to the other instance, whose methods then run on its own fields.  Each  *)
(* instance has one method invoked on it, at any point of the other's; the *)
(* clock stands still meanwhile.                                           *)
(***************************************************************************)
\* control passes to the other instance once the continuations of this one
\* have run
turn ==
    /\ NoMicrotask
    /\ apiKey' = peer.apiKey
    /\ userId' = peer.userId
    /\ accessToken' = peer.accessToken
    /\ accessTokenExpiry' = peer.accessTokenExpiry
    /\ task' = peer.task
    /\ eagerToken' = peer.eagerToken
    /\ peer' = [apiKey |-> apiKey, userId |-> userId, accessToken |-> accessToken,
                accessTokenExpiry |-> accessTokenExpiry, task |-> task,
                eagerToken |-> eagerToken]
    /\ self' = 3 - self
    /\ UNCHANGED <<now, maxActive>>

\* the endpoint methods called: one of each auth mode
InstanceEndpoints == {"getUser", "getTimelines"}

NextInstances ==
    \/ \E t \in Tasks :
          \/ setAccessToken(t)
          \/ \E arg \in UserIds : setUserId(t, arg)
          \/ \E e \in InstanceEndpoints : _doFetch(t, e)
          \/ getAccessToken_resume(t)
          \/ setAccessToken_resume(t)
          \/ setUserId_resume(t)
          \/ _getAuthHeadersAudienceEndpoints_resume(t)
          \/ _doFetch_resume(t)
          \/ \E o \in Outcomes : _doFetch_response(t, o)
          \/ remoteToken(t)
          \/ transportFailure(t)
    \/ turn

\* two instances constructed, the first without a userId, the second with
\* a userId of its own
InitInstances ==
    /\ Constructed
    /\ userId = _uuidv4
    /\ maxActive = 1
    /\ \E k \in ApiKeys : peer = Instance(k, <<"u", "1">>)

SpecInstances == InitInstances /\ [][NextInstances]_vars

(***************************************************************************)
(* Two bearer-mode calls on one session, the second started without        *)
(* awaiting the first.                                                     *)
(***************************************************************************)
\* the bearer-mode methods called: one GET and one POST
ConcurrentEndpoints == {"getUser", "createUser"}

NextConcurrent ==
    \/ \E t \in Tasks :
          \/ \E e \in ConcurrentEndpoints : _doFetch(t, e)
          \/ getAccessToken_resume(t)
          \/ setAccessToken_resume(t)
          \/ _getAuthHeadersAudienceEndpoints_resume(t)
          \/ _doFetch_resume(t)
          \/ \E o \in Outcomes : _doFetch_response(t, o)
          \/ remoteToken(t)
          \/ transportFailure(t)
    \/ Tick

\* a session constructed without a userId, whose caller may have two
\* methods running
InitConcurrent == Constructed /\ userId = _uuidv4 /\ maxActive = 2 /\ peer = NoPeer

SpecConcurrent == InitConcurrent /\ [][NextConcurrent]_vars

(***************************************************************************)
(* setUserId and a bearer-mode call on one session, either started         *)
(* without awaiting the other.                                             *)
(***************************************************************************)
NextReplace ==
    \/ \E t \in Tasks :
          \/ \E arg \in UserIds : setUserId(t, arg)
          \/ _doFetch(t, "getUser")
          \/ getAccessToken_resume(t)
          \/ setAccessToken_resume(t)
          \/ setUserId_resume(t)
          \/ _getAuthHeadersAudienceEndpoints_resume(t)
          \/ _doFetch_resume(t)
          \/ \E o \in Outcomes : _doFetch_response(t, o)
          \/ remoteToken(t)
          \/ transportFailure(t)
    \/ Tick

SpecReplace == InitConcurrent /\ [][NextReplace]_vars

(***************************************************************************)
(* The workflow initialiseAndProgressUser on a session, its sub-calls      *)
(* answered with every body.                                               *)
(***************************************************************************)
\* answers to the sub-calls: every outcome but the body that differs from
\* another in its error text only
WorkflowOutcomes ==
    {o \in BodyOutcomes : o.data # JObject(JVal(<<"d1">>), JVal(<<>>))}

NextWorkflow ==
    \/ \E t \in Tasks :
          \/ \E a \in WorkflowArgs : initialiseAndProgressUser(t, a)
          \/ initialiseAndProgressUser_resume(t)
          \/ getAccessToken_resume(t)
          \/ setAccessToken_resume(t)
          \/ _getAuthHeadersAudienceEndpoints_resume(t)
          \/ _doFetch_resume(t)
          \/ \E o \in WorkflowOutcomes : _doFetch_response(t, o)
          \/ remoteToken(t)
          \/ transportFailure(t)
          \/ settle(t)
    \/ Tick

\* a session constructed without a userId
InitWorkflow == Init /\ userId = _uuidv4

SpecWorkflow == InitWorkflow /\ [][NextWorkflow]_vars

(***************************************************************************)
(* Vocabulary of the properties.                                           *)
(***************************************************************************)
\* the apiKey starts with "s_"
KeyHasSecretPrefix == Len(apiKey) >= 2 /\ apiKey[1] = "s" /\ apiKey[2] = "_"

\* the session is as the method of record r found it
SessionAsFound(r) ==
    /\ userId = r.pre.userId
    /\ accessToken = r.pre.accessToken
    /\ accessTokenExpiry = r.pre.accessTokenExpiry

\* the methods that go through bearer-mode and key-mode header composition
BearerMethods ==
    {"getUser", "deleteUser", "createUser", "progressUserStep",
     "getUserTimelineEvents", "followLinkUserTimelineEvent"}
KeyMethods ==
    {"getTimelines", "getTimeline", "getTimelineEvents", "getTimelineUsers",
     "deleteTimelineUsers", "getTimelineUser", "deleteTimelineUser",
     "getTimelineEventStateChanges"}

\* the method of record r found a token whose stored expiry was in the future
FoundValidToken(r) ==
    /\ Truthy(r.pre.accessToken)
    /\ r.pre.accessTokenExpiry.kind = "num"
    /\ r.pre.accessTokenExpiry.v > r.pre.now

\* the method of record r found no token, or an expiry not in the future
FoundNoValidToken(r) ==
    \/ ~Truthy(r.pre.accessToken)
    \/ r.pre.accessTokenExpiry.kind = "null"
    \/ r.pre.accessTokenExpiry.kind = "num" /\ r.pre.accessTokenExpiry.v <= r.pre.now

(***************************************************************************)
(* C1: with a public key, a bearer-mode endpoint call that has completed   *)
(* issued exactly one token exchange if it found no valid cached token     *)
(* (token absent, or expiry not in the future), and none if it found a     *)
(* token whose expiry was in the future.                                   *)
(***************************************************************************)
C1_OneExchangeIffNoValidToken ==
    \A t \in Tasks :
        LET r == task[t] IN
        (~KeyHasSecretPrefix /\ r.op \in BearerMethods /\ r.pc = "done") =>
            /\ FoundNoValidToken(r) => r.nExchanges = 1
            /\ FoundValidToken(r) => r.nExchanges = 0

(***************************************************************************)
(* C2: with a secret key, a bearer-mode endpoint call never issues a token *)
(* exchange, and the headers it composes and sends carry Authorization =   *)
(* the raw apiKey and Fictioneers-User-ID = the session's userId.          *)
(***************************************************************************)
C2_SecretKeyHeaders ==
    \A t \in Tasks :
        LET r == task[t]
            h == [Authorization |-> RawAuth(apiKey), UserID |-> Present(userId)]
        IN
        (KeyHasSecretPrefix /\ r.op \in BearerMethods) =>
            /\ r.nExchanges = 0
            /\ r.exchange.state = "none"
            /\ r.headers = h
            /\ r.pc \in {"_doFetch.resume", "_doFetch.await", "done"}
            /\ r.pc # "_doFetch.resume" => r.request.state # "none" /\ r.request.headers = h
            /\ r.error = "" \/ r.error = "NetworkFailure"

\* a secret-key session whose bearer-mode call, started without a token,
\* has come back
C2_Witness ==
    \E t \in Tasks :
        /\ KeyHasSecretPrefix
        /\ task[t].op = "getUser"
        /\ task[t].pc = "done"
        /\ task[t].result = "ok"
        /\ ~Truthy(task[t].pre.accessToken)
        /\ Len(userId) > 0

(***************************************************************************)
(* C3: setAccessToken refreshes whenever it finds the token absent or      *)
(* now >= accessTokenExpiry, the case now = accessTokenExpiry included.    *)
(***************************************************************************)
\* this.accessToken as the setAccessToken() of record r read it
TokenAtCheck(r) == IF r.op = "setUserId" THEN Null ELSE r.pre.accessToken

C3_RefreshAtExpiry ==
    \A t \in Tasks :
        LET r == task[t] IN
        (/\ r.checked
         /\ \/ ~Truthy(TokenAtCheck(r))
            \/ r.pre.accessTokenExpiry.kind = "null"
            \/ r.pre.accessTokenExpiry.kind = "num"
               /\ r.pre.now >= r.pre.accessTokenExpiry.v)
        => r.refreshed

(***************************************************************************)
(* C4: once a grant has been stored, accessTokenExpiry is at most the time *)
(* at which the service issued the grant plus (expires_in - 10) seconds.   *)
(***************************************************************************)
\* the setAccessToken() of record r has stored the grant of its exchange
StoredGrant(r) ==
    /\ r.refreshed
    /\ r.grant.accessToken.kind = "jwt"
    /\ r.pc \in {"setUserId.resume", "_getAuthHeadersAudienceEndpoints.resume",
                 "_doFetch.resume", "_doFetch.await", "done"}

C4_ExpiryWithinMarginOfIssue ==
    \A t \in Tasks :
        LET r == task[t] IN
        StoredGrant(r) =>
            /\ accessTokenExpiry.kind = "num"
            /\ accessTokenExpiry.v <=
                   r.grant.accessToken.iat
                   + (r.grant.accessToken.exp - SafetyMarginSec) * MsPerSec

(***************************************************************************)
(* C5: with a public key, no endpoint request carries a Bearer token at a  *)
(* time later than the token's real expiry (issue time + expires_in).      *)
(***************************************************************************)
C5_BearerNeverAfterRealExpiry ==
    \A t \in Tasks :
        LET q == task[t].request IN
        (q.state # "none" /\ q.headers.Authorization.scheme = "bearer") =>
            q.sentAt <= RealExpiry(q.headers.Authorization.token)

(***************************************************************************)
(* C6: in every state accessToken and accessTokenExpiry are both absent or *)
(* both present.                                                           *)
(***************************************************************************)
C6_TokenAndExpiryTogether ==
    Truthy(accessToken) <=> accessTokenExpiry.kind = "num"

(***************************************************************************)
(* C7: setUserId called with the session's current userId returns at once  *)
(* and changes nothing: userId, accessToken and accessTokenExpiry are as   *)
(* it found them and no token exchange is issued.                          *)
(***************************************************************************)
C7_SetSameUserIdChangesNothing ==
    \A t \in Tasks :
        LET r == task[t] IN
        (r.op = "setUserId" /\ r.arg = r.pre.userId) =>
            /\ r.pc = "done"
            /\ r.result = "ok"
            /\ r.nExchanges = 0
            /\ r.exchange.state = "none"
            /\ SessionAsFound(r)

\* setUserId has returned from a call with the current, non-empty userId,
\* made while a token was cached
C7_Witness ==
    \E t \in Tasks :
        /\ task[t].op = "setUserId"
        /\ task[t].arg = task[t].pre.userId
        /\ Len(task[t].arg) > 0
        /\ task[t].pc = "done"
        /\ Truthy(task[t].pre.accessToken)

(***************************************************************************)
(* C8, as claimed: setUserId called with an empty userId fails with an     *)
(* error in every session state and leaves userId, accessToken and         *)
(* accessTokenExpiry unchanged.                                            *)
(***************************************************************************)
C8_EmptyUserIdAlwaysFails ==
    \A t \in Tasks :
        LET r == task[t] IN
        (r.op = "setUserId" /\ r.arg = <<>>) =>
            /\ r.pc = "done"
            /\ r.result = "error"
            /\ SessionAsFound(r)

(***************************************************************************)
(* C8, amended: setUserId called with an empty userId leaves userId,       *)
(* accessToken and accessTokenExpiry unchanged and issues no exchange; it  *)
(* fails with an error exactly when the session's current userId is not    *)
(* empty, and returns normally when the current userId is itself empty.    *)
(***************************************************************************)
C8_EmptyUserIdFailsUnlessCurrent ==
    \A t \in Tasks :
        LET r == task[t] IN
        (r.op = "setUserId" /\ r.arg = <<>>) =>
            /\ r.pc = "done"
            /\ r.nExchanges = 0
            /\ SessionAsFound(r)
            /\ r.result = (IF r.pre.userId = <<>> THEN "ok" ELSE "error")

\* setUserId has thrown on an empty userId, in a session that holds a token
C8_Witness ==
    \E t \in Tasks :
        /\ task[t].op = "setUserId"
        /\ task[t].arg = <<>>
        /\ task[t].pc = "done"
        /\ task[t].result = "error"
        /\ Truthy(accessToken)

(***************************************************************************)
(* C9: setUserId called with a non-empty id other than the current userId  *)
(* sets userId to it, discards the cached token, and issues exactly one    *)
(* token exchange, whose body carries the new userId, before it completes; *)
(* when the exchange returns a token the cache holds that token, and the   *)
(* next bearer-mode call, made before the stored expiry of that token,     *)
(* issues no exchange.                                                     *)
(***************************************************************************)
C9_SetNewUserIdRefreshesEagerly ==
    \A t \in Tasks :
        LET r == task[t] IN
        /\ (r.op = "setUserId" /\ r.arg # <<>> /\ r.arg # r.pre.userId) =>
              /\ userId = r.arg
              /\ r.nExchanges = 1
              /\ r.exchange.user = r.arg
              /\ r.exchange.headers.Authorization = RawAuth(apiKey)
              /\ r.pc \in {"getAccessToken.await", "setAccessToken.resume",
                           "setUserId.resume", "done"}
              /\ r.pc = "getAccessToken.await" => accessToken = Null
              /\ (r.pc = "done" /\ r.result = "error") => accessToken = Null
              /\ (r.pc = "done" /\ r.result = "ok") =>
                    /\ r.exchange.state = "granted"
                    /\ accessToken = r.exchange.token
                    /\ accessTokenExpiry =
                           setAccessToken_expiry(now, r.exchange.expiresIn)
                    /\ eagerToken = accessToken
        /\ (/\ r.op \in BearerMethods
            /\ Truthy(r.pre.eagerToken)
            /\ r.pre.accessTokenExpiry.kind = "num"
            /\ r.pre.now < r.pre.accessTokenExpiry.v) =>
              /\ r.pre.accessToken = r.pre.eagerToken
              /\ r.pre.accessToken.user = r.pre.userId
              /\ r.nExchanges = 0
              /\ r.exchange.state = "none"

\* a public-key session: the bearer-mode call that followed a setUserId with
\* a new id, before the stored expiry of the token it cached, has sent its
\* request with that token
C9_Witness ==
    \E t \in Tasks :
        /\ ~KeyHasSecretPrefix
        /\ task[t].op \in BearerMethods
        /\ task[t].pc = "done"
        /\ Truthy(task[t].pre.eagerToken)
        /\ task[t].pre.now < task[t].pre.accessTokenExpiry.v
        /\ task[t].pre.userId = <<"u", "2">>
        /\ task[t].request.headers.Authorization = BearerAuth(task[t].pre.eagerToken)

(***************************************************************************)
(* C10: a key-mode endpoint call sends Authorization = the raw apiKey,     *)
(* issues no token exchange and leaves accessToken, accessTokenExpiry and  *)
(* userId unchanged.                                                       *)
(***************************************************************************)
C10_KeyModeSendsRawKey ==
    \A t \in Tasks :
        LET r == task[t] IN
        r.op \in KeyMethods =>
            /\ r.pc \in {"_doFetch.await", "done"}
            /\ r.request.state # "none"
            /\ r.request.headers.Authorization = RawAuth(apiKey)
            /\ r.nExchanges = 0
            /\ r.exchange.state = "none"
            /\ SessionAsFound(r)

\* a public-key session without a valid token: a key-mode call has come back
C10_Witness ==
    \E t \in Tasks :
        /\ ~KeyHasSecretPrefix
        /\ task[t].op = "deleteTimelineUsers"
        /\ task[t].pc = "done"
        /\ task[t].result = "ok"
        /\ ~Truthy(accessToken)

(***************************************************************************)
(* The wire log of a call.                                                 *)
(***************************************************************************)
\* positions of the log of r that hold event ev of the exchange or the
\* endpoint request
LogAt(r, ev, to) == {i \in 1..Len(r.log) : r.log[i].ev = ev /\ r.log[i].to = to}
ExchangeRequests(r) == LogAt(r, "request", "exchange")
ExchangeResponses(r) == LogAt(r, "response", "exchange")
EndpointRequests(r) == LogAt(r, "request", "endpoint")
\* the exchange answered with a token
ExchangeGranted(r) == {j \in ExchangeResponses(r) : Truthy(r.log[j].token)}

\* getUser() on a public-key session that holds no token
GetUserWithoutToken(r) ==
    r.op = "getUser" /\ ~KeyHasSecretPrefix /\ ~Truthy(r.pre.accessToken)

\* C11: for a public-key session with no token yet, getUser() first issues
\* the token exchange; its one GET /users/me is issued only after the
\* response of the exchange has been received and carries "Bearer " and the
\* access_token of that response; once the call has settled after a grant,
\* exactly one exchange and exactly one GET /users/me have been issued.
C11_ExchangeThenOneBearerRequest ==
    \A t \in Tasks :
        LET r == task[t] IN
        GetUserWithoutToken(r) =>
            /\ r.log # <<>> /\ 1 \in ExchangeRequests(r)
            /\ Cardinality(ExchangeRequests(r)) = 1
            /\ Cardinality(EndpointRequests(r)) <= 1
            /\ \A i \in EndpointRequests(r) :
                  /\ r.log[i].method = "GET" /\ r.log[i].url = "/users/me"
                  /\ \E j \in ExchangeGranted(r) :
                        /\ j < i
                        /\ r.log[i].headers =
                               [Authorization |-> BearerAuth(r.log[j].token),
                                UserID |-> Absent]
            /\ (r.pc = "done" /\ ExchangeGranted(r) # {}) =>
                  Cardinality(EndpointRequests(r)) = 1

C11_Witness ==
    \E t \in Tasks :
        LET r == task[t] IN
        /\ GetUserWithoutToken(r)
        /\ r.pc = "done" /\ r.result = "ok"
        /\ Len(r.log) = 4
        /\ r.log[3].headers.Authorization = BearerAuth(r.log[2].token)

\* the exchange of the call of record r was answered with a status outside 2xx
ExchangeRejected(r) == \E j \in ExchangeResponses(r) : r.log[j].status \notin 200..299 /\ r.log[j].status # 0

\* C12: when the service rejects the token exchange (status outside 2xx)
\* during a bearer-mode endpoint call with a public key, the call fails
\* with that error, it has made exactly one exchange attempt, it has sent
\* no endpoint request, and accessToken and accessTokenExpiry hold the
\* values they had before the call.
C12_RejectedExchangeFailsTheCall ==
    \A t \in Tasks :
        LET r == task[t] IN
        (r.op \in BearerMethods /\ ~KeyHasSecretPrefix /\ ExchangeRejected(r)) =>
            /\ r.pc = "done" /\ r.result = "error" /\ r.error = "rejected"
            /\ Cardinality(ExchangeRequests(r)) = 1
            /\ EndpointRequests(r) = {}
            /\ r.request.state = "none"
            /\ accessToken = r.pre.accessToken
            /\ accessTokenExpiry = r.pre.accessTokenExpiry

\* a call that found an expired token and had its exchange rejected
C12_Witness ==
    \E t \in Tasks :
        LET r == task[t] IN
        /\ r.op \in BearerMethods /\ ~KeyHasSecretPrefix /\ ExchangeRejected(r)
        /\ r.pc = "done" /\ r.result = "error"
        /\ Truthy(r.pre.accessToken) /\ accessToken = r.pre.accessToken

\* the exchange of the call of record r was answered 2xx without a token
ExchangeWithoutToken(r) ==
    \E j \in ExchangeResponses(r) : r.log[j].status \in 200..299 /\ ~Truthy(r.log[j].token)

\* C13: a bearer-mode call with a public key never sends an endpoint
\* request whose token is absent; when accessToken is still absent after
\* the refresh (the exchange response carried no access_token), header
\* composition fails with an error and no endpoint request is issued.
C13_NoRequestWithoutToken ==
    \A t \in Tasks :
        LET r == task[t] IN
        (r.op \in BearerMethods /\ ~KeyHasSecretPrefix) =>
            /\ \A i \in EndpointRequests(r) :
                  /\ r.log[i].headers.Authorization.scheme = "bearer"
                  /\ Truthy(r.log[i].headers.Authorization.token)
            /\ ExchangeWithoutToken(r) =>
                  /\ EndpointRequests(r) = {}
                  /\ r.pc = "done" =>
                        /\ r.result = "error"
                        /\ r.error = "Could not assemble auth headers with bearer - no access token"

C13_Witness ==
    \E t \in Tasks :
        LET r == task[t] IN
        /\ r.op \in BearerMethods /\ ~KeyHasSecretPrefix
        /\ ExchangeWithoutToken(r)
        /\ r.pc = "done" /\ r.result = "error"
        /\ ~Truthy(accessToken)

\* the endpoint methods that call _doFetch with method: "DELETE"
DeleteMethods == {e \in EndpointNames : Endpoints[e].method = "DELETE"}

\* the envelope of lines 689-694 with the given error
DeleteEnvelope(error) ==
    [kind |-> "object", data |-> JNull, error |-> error, meta |-> JNull, status |-> 204]

\* C14: every DELETE endpoint call (deleteUser, deleteTimelineUser,
\* deleteTimelineUsers) whose request the service has answered returns
\* {data: null, error: null, meta: null, status: 204} when the status is
\* 2xx, and the same envelope with error equal to the status text of the
\* response when the status is 404 (or any status >= 400).
C14_DeleteReturnsEnvelope ==
    \A t \in Tasks :
        LET r == task[t] IN
        (r.op \in DeleteMethods /\ r.pc = "done" /\ r.request.state = "response") =>
            /\ r.request.status \in 200..299 =>
                  r.result = "ok" /\ r.value = DeleteEnvelope(JNull)
            /\ r.request.status >= 400 =>
                  r.result = "ok" /\ r.value = DeleteEnvelope(JVal(<<r.request.statusText>>))

\* the endpoint request of the call of record r failed in the transport, or
\* was answered with a status outside 2xx
RequestFailed(r) ==
    \/ r.request.state = "transport"
    \/ r.request.state = "response" /\ r.request.status \notin 200..299

\* C15: for a GET, POST or PATCH call, a transport failure or a status
\* outside 2xx makes the call fail with an error and return no body, and
\* whatever the outcome the call has issued at most one endpoint request.
C15_FailurePropagatesWithoutRetry ==
    \A t \in Tasks :
        LET r == task[t] IN
        r.call.method \in {"GET", "POST", "PATCH"} =>
            /\ Cardinality(EndpointRequests(r)) <= 1
            /\ (r.pc = "done" /\ RequestFailed(r)) =>
                  /\ r.result = "error" /\ r.error = "NetworkFailure"
                  /\ r.value = NoValue

\* a PATCH answered 404 has failed
C15_Witness ==
    \E t \in Tasks :
        LET r == task[t] IN
        /\ r.call.method = "PATCH"
        /\ r.pc = "done" /\ r.request.state = "response" /\ r.request.status = 404
        /\ r.result = "error"
        /\ Cardinality(EndpointRequests(r)) = 1

\* the call of record r has settled after a 2xx answer to a request other
\* than DELETE
AnsweredNonDelete(r) ==
    /\ r.call.method \in {"GET", "POST", "PATCH"}
    /\ r.pc = "done"
    /\ r.request.state = "response" /\ r.request.status \in 200..299

\* the error text of body b with the notice appended
WithNotice(b) ==
    JVal((IF b.error.kind = "value" THEN b.error.v ELSE <<>>) \o <<DeprecationNotice>>)

\* C20: in the dispatcher, when `deprecated` is set and the body of a
\* non-DELETE response is not an array, the call returns the body with the
\* deprecation notice in its error field (appended to the error text there
\* was, or created when error was null or absent) and its data field as
\* received; when the body is a top-level array, or `deprecated` is not
\* set, the call returns the body as received.
C20_DeprecationNotice ==
    \A t \in Tasks :
        LET r == task[t]
            b == r.request.data
        IN
        AnsweredNonDelete(r) =>
            /\ r.result = "ok"
            /\ IF r.call.deprecated /\ b.kind # "array"
               THEN /\ r.value.error = WithNotice(b)
                    /\ r.value.data = b.data
               ELSE r.value = b

(***************************************************************************)
(* The workflow's sub-calls on the wire.                                   *)
(***************************************************************************)
IsEndpointRequest(x) == x.ev = "request" /\ x.to = "endpoint"
IsEndpointResponse(x) == x.ev = "response" /\ x.to = "endpoint"
\* the endpoint requests of the call of record r, and the answers to them,
\* in order
RequestsOf(r) == SelectSeq(r.log, IsEndpointRequest)
ResponsesOf(r) == SelectSeq(r.log, IsEndpointResponse)
IsCall(x, method, url) == x.method = method /\ x.url = url

Workflow(r) == r.op = "initialiseAndProgressUser"
\* getUser() has returned a body to the workflow of record r
GetUserAnswered(r) ==
    /\ Workflow(r)
    /\ Len(ResponsesOf(r)) >= 1
    /\ ResponsesOf(r)[1].status \in 200..299
    /\ ResponsesOf(r)[1].data.kind \in {"object", "array"}
\* .. whose data is null or absent
GetUserFoundNoUser(r) ==
    GetUserAnswered(r) /\ ResponsesOf(r)[1].data.data.kind \in {"null", "absent"}
Succeeded(r) == r.pc = "done" /\ r.result = "ok"

\* C16: initialiseAndProgressUser with timeline id t, when the getUser
\* response has data null or absent, issues in this order one GET
\* /users/me, then exactly one POST /users with published_timeline_id = t
\* and the disableTimeGuards, pauseAtBeats and maxSteps it was given, then
\* exactly one GET /user-timeline-events, each after the answer to the one
\* before; the user it returns is the data of the createUser response and
\* userTimelineEvents is the data of the events response (an empty list
\* when that data is absent).
C16_CreateThenEvents ==
    \A t \in Tasks :
        LET r == task[t]
            q == RequestsOf(r)
            p == ResponsesOf(r)
        IN
        GetUserFoundNoUser(r) =>
            /\ Len(q) <= 3 /\ Len(p) >= Len(q) - 1
            /\ IsCall(q[1], "GET", "/users/me")
            /\ Len(q) >= 2 =>
                  /\ IsCall(q[2], "POST", "/users")
                  /\ q[2].body.published_timeline_id = r.args.timelineId
                  /\ q[2].body.disable_time_guards = r.args.disableTimeGuards
                  /\ q[2].body.pause_at_beats = r.args.pauseAtBeats
                  /\ q[2].body.max_steps = r.args.maxSteps
            /\ Len(q) = 3 => IsCall(q[3], "GET", "/user-timeline-events")
            /\ Succeeded(r) =>
                  /\ Len(q) = 3 /\ Len(p) = 3
                  /\ r.wf.returned
                  /\ r.wf.user = p[2].data.data
                  /\ r.wf.userTimelineEvents =
                        IF p[3].data.data.kind = "value" THEN p[3].data.data
                        ELSE JVal(<<>>)

\* a workflow with every flag set that created the user and returned it
C16_Witness ==
    \E t \in Tasks :
        LET r == task[t] IN
        /\ GetUserFoundNoUser(r) /\ Succeeded(r)
        /\ r.args.disableTimeGuards /\ r.args.maxSteps = Num(3)
        /\ Len(RequestsOf(r)) = 3
        /\ r.wf.user = JVal(<<"d1">>)
        /\ r.wf.userTimelineEvents = JVal(<<>>)

\* positions of the requests of r that are the createUser POST / the events GET
CreateUserPosts(r) ==
    {i \in 1..Len(RequestsOf(r)) : IsCall(RequestsOf(r)[i], "POST", "/users")}
EventsGets(r) ==
    {i \in 1..Len(RequestsOf(r)) : IsCall(RequestsOf(r)[i], "GET", "/user-timeline-events")}

\* C17: initialiseAndProgressUser issues the createUser POST if and only if
\* the data of the getUser response is null or absent; when the user
\* exists it issues no POST /users, still fetches the user timeline events
\* exactly once, and returns with the user field unset.
C17_CreateIffNoUser ==
    \A t \in Tasks :
        LET r == task[t]
            q == RequestsOf(r)
        IN
        Workflow(r) =>
            /\ CreateUserPosts(r) # {} => GetUserFoundNoUser(r)
            /\ (GetUserFoundNoUser(r) /\ (Len(q) >= 2 \/ Succeeded(r))) =>
                  CreateUserPosts(r) = {2}
            /\ Cardinality(CreateUserPosts(r)) <= 1
            /\ Cardinality(EventsGets(r)) <= 1
            /\ (GetUserAnswered(r) /\ ~GetUserFoundNoUser(r)) =>
                  /\ Len(q) >= 2 =>
                        Len(q) = 2 /\ IsCall(q[2], "GET", "/user-timeline-events")
                  /\ Succeeded(r) =>
                        /\ Cardinality(EventsGets(r)) = 1
                        /\ r.wf.returned /\ r.wf.user = JAbsent

\* a workflow that found the user and returned without it
C17_Witness ==
    \E t \in Tasks :
        LET r == task[t] IN
        /\ GetUserAnswered(r) /\ ResponsesOf(r)[1].data.data = JVal(<<"d1">>)
        /\ Succeeded(r)
        /\ CreateUserPosts(r) = {} /\ EventsGets(r) = {2}
        /\ r.wf.user = JAbsent

\* the failure a response stands for: of the exchange, the axios error; of
\* an endpoint request, NetworkFailure
FailureOf(x) ==
    IF x.to = "endpoint" THEN "NetworkFailure"
    ELSE IF x.status = 0 THEN "transport" ELSE "rejected"
Failed(r) == r.pc = "done" /\ r.result = "error"

\* C18: initialiseAndProgressUser does not catch the failures of its
\* sub-calls: a failed answer is the last thing on the wire, so that after
\* a failure of getUser neither createUser nor getUserTimelineEvents is
\* issued and after a failure of createUser getUserTimelineEvents is not
\* issued; the workflow fails with the error of the sub-call and returns
\* no partial result.
C18_FailuresPropagate ==
    \A t \in Tasks :
        LET r == task[t] IN
        Workflow(r) =>
            /\ \A i \in 1..Len(r.log) :
                  (r.log[i].ev = "response" /\ r.log[i].status \notin 200..299) =>
                      /\ i = Len(r.log)
                      /\ Failed(r) /\ r.error = FailureOf(r.log[i])
            /\ Failed(r) =>
                  /\ r.wf = NoWorkflowResult
                  /\ r.stage = "getUser" => Len(RequestsOf(r)) <= 1
                  /\ r.stage = "createUser" =>
                        Len(RequestsOf(r)) <= 2 /\ EventsGets(r) = {}

\* a workflow whose createUser was answered 404
C18_Witness ==
    \E t \in Tasks :
        LET r == task[t] IN
        /\ Workflow(r) /\ Failed(r)
        /\ r.stage = "createUser" /\ r.request.status = 404
        /\ r.error = "NetworkFailure"
        /\ Len(RequestsOf(r)) = 2 /\ r.wf = NoWorkflowResult

(***************************************************************************)
(* Two calls in flight.                                                    *)
(***************************************************************************)
\* the tokens the exchanges of the calls in flight have returned
GrantedTokens ==
    UNION {{task[t].log[j].token : j \in ExchangeGranted(task[t])} : t \in Tasks}
\* every exchange answered so far was answered with a token
ExchangesSucceeded ==
    \A t \in Tasks : ExchangeResponses(task[t]) = ExchangeGranted(task[t])
\* both slots hold a bearer-mode call on a public-key session
TwoBearerCalls ==
    /\ ~KeyHasSecretPrefix
    /\ \A t \in Tasks : task[t].op \in BearerMethods
\* the call has left header composition with its headers
Composed(r) == r.request.state # "none"

\* C19: two bearer-mode calls started concurrently on one public-key session
\* are not serialised.  In every interleaving in which the exchanges
\* succeed, neither call fails in header composition: each sends its one
\* endpoint request, with a Bearer token that one of the exchanges
\* returned, and once both have composed their headers the cache holds a
\* token that one of the exchanges returned.  (That both may issue an
\* exchange is C19_Witness.)
C19_BothCallsGetAToken ==
    (TwoBearerCalls /\ ExchangesSucceeded) =>
        /\ \A t \in Tasks :
              LET r == task[t] IN
              /\ r.pc = "done" => Composed(r) /\ Cardinality(EndpointRequests(r)) = 1
              /\ r.error \in {"", "NetworkFailure"}
              /\ \A i \in EndpointRequests(r) :
                    /\ r.log[i].headers.Authorization.scheme = "bearer"
                    /\ r.log[i].headers.Authorization.token \in GrantedTokens
        /\ (\A t \in Tasks : Composed(task[t])) => accessToken \in GrantedTokens

\* both calls found no token (the second was started before the exchange of
\* the first was answered), both issued an exchange, and each sent its
\* request with the token of its own exchange
C19_Witness ==
    /\ TwoBearerCalls /\ ExchangesSucceeded
    /\ \A t \in Tasks :
          LET r == task[t] IN
          /\ ~Truthy(r.pre.accessToken)
          /\ Cardinality(ExchangeRequests(r)) = 1
          /\ r.pc = "done" /\ r.result = "ok"
          /\ r.request.headers.Authorization.token = r.exchange.token
    /\ task[1].exchange.token # task[2].exchange.token
    /\ accessToken \in GrantedTokens

(***************************************************************************)
(* Two instances.                                                          *)
(***************************************************************************)
Instances == {1, 2}
\* the fields of instance i, wherever control is
FieldsOf(i) ==
    IF self = i
    THEN [apiKey |-> apiKey, userId |-> userId, accessToken |-> accessToken,
          accessTokenExpiry |-> accessTokenExpiry]
    ELSE [apiKey |-> peer.apiKey, userId |-> peer.userId,
          accessToken |-> peer.accessToken,
          accessTokenExpiry |-> peer.accessTokenExpiry]

\* C21: instances share no mutable state: a step of a method of one
\* instance (setUserId, a token refresh, an endpoint call), wherever it
\* falls among the steps of the other instance's methods, leaves the
\* userId, accessToken and accessTokenExpiry of the other instance
\* unchanged, and no step changes the apiKey of any instance.
C21_InstancesAreIndependent ==
    [][\A i \in Instances :
          /\ FieldsOf(i)'.apiKey = FieldsOf(i).apiKey
          /\ i # self => FieldsOf(i)' = FieldsOf(i)]_vars

\* both instances have run a method to its end: one has replaced its userId
\* and holds the token for it, the other holds its own token
C21_Witness ==
    \E t, u \in Tasks :
        /\ task[t].op = "getUser" /\ task[t].pc = "done" /\ task[t].result = "ok"
        /\ peer.task[u].op = "setUserId" /\ peer.task[u].pc = "done"
        /\ peer.task[u].result = "ok"
        /\ peer.userId = <<"u", "2">>
        /\ Truthy(accessToken) /\ accessToken.user = userId
        /\ Truthy(peer.accessToken) /\ peer.accessToken.user = peer.userId

(***************************************************************************)
(* setUserId racing a token exchange.                                      *)
(***************************************************************************)
\* C22: on a public-key session, however setUserId, bearer-mode calls and
\* token exchanges in flight interleave, a token that is put in the cache
\* and a Bearer token that header composition attaches to a request were
\* obtained by an exchange made for the userId the session has at that
\* moment: a token issued for an earlier userId is neither cached nor
\* presented once the userId has been replaced, even when the exchange was
\* started before the replacement and answered after it.
C22_TokenIsForCurrentUser ==
    [][~KeyHasSecretPrefix =>
          /\ (accessToken' # accessToken /\ Truthy(accessToken')) =>
                accessToken'.user = userId'
          /\ \A t \in Tasks :
                (/\ task'[t].headers # task[t].headers
                 /\ task'[t].headers.Authorization.scheme = "bearer") =>
                    task'[t].headers.Authorization.token.user = userId']_vars

(***************************************************************************)
(* setUserId whose exchange fails.                                         *)
(***************************************************************************)
\* setUserId(newId) of record r has failed in its token exchange
ExchangeOfSetUserIdFailed(r) ==
    /\ r.op = "setUserId" /\ Failed(r)
    /\ r.error \in {"rejected", "transport"}
\* the method of record r was invoked next after such a setUserId
AfterFailedSetUserId(r) == r.pre.eagerToken.kind = "failed"

\* C23: when the eager exchange inside setUserId(newId) fails, setUserId
\* fails with that error after one exchange attempt and the session is not
\* rolled back: userId is newId and accessToken is null.  The bearer-mode
\* call that comes next on a public-key session finds no token, issues a
\* fresh exchange for newId before anything else, and any request it sends
\* carries the token of that exchange, never the token of the old user.
C23_FailedSetUserIdIsNotRolledBack ==
    \A t \in Tasks :
        LET r == task[t] IN
        /\ ExchangeOfSetUserIdFailed(r) =>
              /\ r.error = r.exchange.state
              /\ r.nExchanges = 1
              /\ r.arg # r.pre.userId /\ userId = r.arg
              /\ accessToken = Null
              /\ eagerToken = FailedFor(r.arg)
        /\ (r.op \in BearerMethods /\ ~KeyHasSecretPrefix /\ AfterFailedSetUserId(r)) =>
              /\ r.pre.userId = r.pre.eagerToken.user
              /\ r.pre.accessToken = Null
              /\ 1 \in ExchangeRequests(r) /\ Cardinality(ExchangeRequests(r)) = 1
              /\ r.exchange.user = r.pre.userId
              /\ \A i \in EndpointRequests(r) :
                    /\ r.log[i].headers.Authorization = BearerAuth(r.exchange.token)
                    /\ r.exchange.token.user = r.pre.userId

\* a session that held a token for its first user: setUserId("u2") failed,
\* and the call that followed has sent its request with a token for "u2"
C23_Witness ==
    \E t \in Tasks :
        LET r == task[t] IN
        /\ r.op \in BearerMethods /\ ~KeyHasSecretPrefix /\ AfterFailedSetUserId(r)
        /\ r.pre.accessTokenExpiry.kind = "num"
        /\ r.pre.userId = <<"u", "2">>
        /\ r.pc = "done" /\ r.result = "ok"
        /\ r.request.headers.Authorization.token.user = <<"u", "2">>

====
